---- MODULE Spec2Model ----
(***************************************************************************)
(* Model of the search / pagination / detail controller of MoviePage      *)
(* (src/src/app/movie_main/page.tsx).  React state is the set of          *)
(* variables; every event handler and every resumption of an awaited      *)
(* request is one action.  State updates made by one handler run (or one  *)
(* continuation after an await) are applied together, as React batches    *)
(* them into one render.                                                   *)
(***************************************************************************)
EXTENDS Integers, Sequences, FiniteSets, Bags, TLC

\* ---------------------------------------------------------------- bounds
MaxInFlight == 2
MaxPage == 6
PageSize == 2
\* the pagination scenario: items per page and number of pages
ScenarioPageLen == 10
ScenarioPages == 5

\* ------------------------------------------------------- option values
\* null / undefined / an absent JSON field
Null == <<>>
Some(x) == <<x>>
Val(o) == o[1]

\* ------------------------------------------------------------- strings
\* Strings the code converts are sequences of one-character strings.
Queries == { <<>>, <<" ">>, <<"a">>, <<" ", "b">> }

IsSpace(c) == c = " "

RECURSIVE TrimStart(_)
TrimStart(s) ==
    IF s # <<>> /\ IsSpace(Head(s)) THEN TrimStart(Tail(s)) ELSE s

RECURSIVE TrimEnd(_)
TrimEnd(s) ==
    IF s # <<>> /\ IsSpace(s[Len(s)]) THEN TrimEnd(SubSeq(s, 1, Len(s) - 1)) ELSE s

\* String.prototype.trim
Trim(s) == TrimEnd(TrimStart(s))

NoTrimBlank(s) == s = <<>>
\* !search.trim()
IsBlankSearch(s) == Trim(s) = <<>>

DigitChars == <<"0", "1", "2", "3", "4", "5", "6", "7", "8", "9">>

DigitVal(c) == CHOOSE d \in 0..9 : DigitChars[d + 1] = c

RECURSIVE ToDigits(_)
\* the provider's string encoding of a count
ToDigits(n) ==
    IF n < 10 THEN <<DigitChars[n + 1]>>
    ELSE ToDigits(n \div 10) \o <<DigitChars[(n % 10) + 1]>>

RECURSIVE ParseDigits(_, _)
ParseDigits(s, acc) ==
    IF s = <<>> THEN acc
    ELSE ParseDigits(Tail(s), acc * 10 + DigitVal(Head(s)))

\* parseInt(s, 10) on a non-empty string of decimal digits
ParseInt(s) == ParseDigits(s, 0)

\* ------------------------------------------------------------ provider
\* The search API is a catalogue: a query has a fixed number of matches,
\* served PageSize at a time; a page past the last one is a failure
\* response.  Besides that the provider may answer any request with a
\* failure response or with a success that leaves out the optional fields
\* (OmdbSearchResponse, lines 15-20), and the call itself may throw.
Min(x, y) == IF x < y THEN x ELSE y

CatalogueTotal(q) == IF Trim(q) = <<"a">> THEN 2 * PageSize - 1 ELSE PageSize

\* OmdbMovie.Poster values: the sentinel, a differently-cased variant, the
\* empty string and an image URL
Posters == <<"N/A", "n/a", "", "https://img.example/p.jpg">>

PosterOf(q, k) ==
    Posters[((k - 1 + (IF Trim(q) = <<"a">> THEN 0 ELSE 3)) % Len(Posters)) + 1]

\* the first match of "b" comes without an identifier
IdOf(q, k) ==
    IF Trim(q) = <<"b">> /\ k = 1 THEN <<>>
    ELSE <<"t", "t">> \o Trim(q) \o ToDigits(k)

\* the k-th match of query `q`; `query` records which query returned it
Movie(q, k) == [imdbID |-> IdOf(q, k), Poster |-> PosterOf(q, k), query |-> q]

CataloguePage(q, p) ==
    LET first == (p - 1) * PageSize + 1
        last == Min(p * PageSize, CatalogueTotal(q))
    IN  [i \in 1..(IF last < first THEN 0 ELSE last - first + 1) |->
            Movie(q, first + i - 1)]

ProviderErrors == { Null, Some("Movie not found!") }

\* fetch() rejected, or res.json() threw
Thrown == [Response |-> "throw", Search |-> Null, totalResults |-> Null, Error |-> Null]

\* OmdbSearchResponse values the provider can answer a request with
SearchResponses(req) ==
    { [Response |-> "True", Search |-> Some(CataloguePage(req.q, req.page)),
       totalResults |-> Some(ToDigits(CatalogueTotal(req.q))), Error |-> Null] :
        x \in { y \in {1} : CataloguePage(req.q, req.page) # <<>> } }
    \cup
    { [Response |-> "True", Search |-> Null, totalResults |-> Null, Error |-> Null] }
    \cup
    { [Response |-> "False", Search |-> Null, totalResults |-> Null, Error |-> e] :
        e \in ProviderErrors }

\* the detail record of the catalogue carries no Poster field
DetailResponses(req) ==
    { [Response |-> "True", imdbID |-> req.id, Poster |-> Null, Error |-> Null] }
    \cup
    { [Response |-> "False", imdbID |-> Null, Poster |-> Null, Error |-> e] :
        e \in ProviderErrors }

DetailThrown == [Response |-> "throw", imdbID |-> Null, Poster |-> Null, Error |-> Null]

\* -------------------------------------------------------------- posters
Placeholder == "https://via.placeholder.com/400x600?text=No+Poster"

PosterForIgnoreCase(poster) ==
    IF poster # Null /\ Val(poster) # "" /\ Val(poster) \notin {"N/A", "n/a"}
    THEN Val(poster) ELSE Placeholder
\* poster && poster !== "N/A" ? poster : placeholder   (undefined is Null)
PosterFor(poster) ==
    IF poster # Null /\ Val(poster) # "" /\ Val(poster) # "N/A"
    THEN Val(poster) ELSE Placeholder

\* --------------------------------------------------------------- state
VARIABLES
    search,          \* useState("")                 query text
    movies,          \* useState<OmdbMovie[]>([])    result collection
    selectedMovie,   \* useState<any>(null)          selection (option)
    loadingMovies,   \* useState(false)
    loadingDetails,  \* useState(false)
    error,           \* useState<string|null>(null)  (option)
    page,            \* useState(1)
    totalResults,    \* useState(0)
    pendingMovies,   \* bag of the search requests awaiting their response
    pendingDetails,  \* bag of the detail requests awaiting their response
    ev               \* history: the handler or continuation that ran last

progVars == <<search, movies, selectedMovie, loadingMovies, loadingDetails,
              error, page, totalResults>>
vars == <<search, movies, selectedMovie, loadingMovies, loadingDetails,
          error, page, totalResults, pendingMovies, pendingDetails, ev>>

NoReq == [q |-> <<>>, page |-> 0, append |-> FALSE, newest |-> FALSE, overtaken |-> Null]
NoResp == [Response |-> "none"]
Event(op, req, resp) == [op |-> op, req |-> req, resp |-> resp]

InFlight == BagCardinality(pendingMovies) + BagCardinality(pendingDetails)

Init ==
    /\ search = <<>>
    /\ movies = <<>>
    /\ selectedMovie = Null
    /\ loadingMovies = FALSE
    /\ loadingDetails = FALSE
    /\ error = Null
    /\ page = 1
    /\ totalResults = 0
    /\ pendingMovies = EmptyBag
    /\ pendingDetails = EmptyBag
    /\ ev = Event("init", NoReq, NoResp)

\* onChange={(e) => setSearch(e.target.value)}
SetSearch(q) ==
    /\ q # search
    /\ search' = q
    /\ ev' = Event("setSearch", NoReq, NoResp)
    /\ UNCHANGED <<movies, selectedMovie, loadingMovies, loadingDetails, error,
                   page, totalResults, pendingMovies, pendingDetails>>

\* history: a pending search request is `newest` while no search was issued
\* after it; `overtaken` holds the query and item count of a fresh search
\* that was issued after it, has resolved successfully and is still the
\* search issued last
Older(r) == [r EXCEPT !.newest = FALSE, !.overtaken = Null]

\* fetchMovies up to its first await
FetchMoviesCall(op, pageParam, append) ==
    LET req == [q |-> search, page |-> pageParam, append |-> append,
                newest |-> TRUE, overtaken |-> Null] IN
    /\ ev' = Event(op, req, NoResp)
    /\ IF IsBlankSearch(search)
       THEN UNCHANGED <<search, movies, selectedMovie, loadingMovies,
                        loadingDetails, error, page, totalResults,
                        pendingMovies, pendingDetails>>
       ELSE /\ InFlight < MaxInFlight
            /\ pageParam <= MaxPage
            /\ loadingMovies' = TRUE
            /\ error' = Null
            /\ pendingMovies' = BagOfAll(Older, pendingMovies) (+) SetToBag({req})
            /\ UNCHANGED <<search, movies, selectedMovie, loadingDetails,
                           page, totalResults, pendingDetails>>

\* the Search button and Enter in the input: fetchMovies(1)
FetchMovies == FetchMoviesCall("fetchMovies", 1, FALSE)

LoadMoreStopsStrict(len, total) == len > total
\* if (movies.length >= totalResults) return;
LoadMoreStops(len, total) == len >= total

SamePage(p) == p
\* const next = page + 1;
NextPage(p) == p + 1

LoadMore ==
    LET next == NextPage(page) IN
    IF LoadMoreStops(Len(movies), totalResults)
    THEN /\ ev' = Event("loadMore", [NoReq EXCEPT !.q = search, !.page = next,
                                                 !.append = TRUE], NoResp)
         /\ UNCHANGED <<search, movies, selectedMovie, loadingMovies,
                        loadingDetails, error, page, totalResults,
                        pendingMovies, pendingDetails>>
    ELSE FetchMoviesCall("loadMore", next, TRUE)

\* the "Load more" control is rendered
LoadMoreOffered == Len(movies) > 0 /\ Len(movies) < totalResults

\* ---------------------------------------------- fetchMovies, resumed
AlwaysAppend(prev, append, items) == prev \o items
\* setMovies((prev) => append ? [...prev, ...items] : items)
NextMovies(prev, append, items) == IF append THEN prev \o items ELSE items

KeepMoviesOnAppend(prev, append) == IF append THEN prev ELSE <<>>
\* setMovies([]) of the Response === "False" branch
MoviesOnFalse(prev, append) == <<>>

\* data.Search || []
SearchOrEmpty(data) == IF data.Search = Null THEN <<>> ELSE Val(data.Search)

\* data.totalResults || "0"
TotalOrZero(data) ==
    IF data.totalResults = Null \/ Val(data.totalResults) = <<>>
    THEN <<"0">> ELSE Val(data.totalResults)

FallbackOnly(data, fallback) == fallback
\* data.Error || fallback
ErrorOr(data, fallback) ==
    IF data.Error = Null \/ Val(data.Error) = "" THEN fallback ELSE Val(data.Error)

\* the texts of setError in fetchMovies
MoviesFallback == "No results"
MoviesCatchAsFallback == "No results"
MoviesCatchError == "Failed to fetch movies. Check your network or API key."

ClearedUnlessThrown(prev, data) == IF data.Response = "throw" THEN prev ELSE FALSE
\* finally { setLoadingMovies(false) }
LoadingMoviesAfter(prev, data) == FALSE

\* history: see Older
Overtake(req, data) ==
    IF req.newest /\ ~req.append /\ data.Response = "True"
    THEN BagOfAll(LAMBDA r : [r EXCEPT !.overtaken =
                     Some([q |-> req.q, n |-> Len(SearchOrEmpty(data))])],
                  pendingMovies (-) SetToBag({req}))
    ELSE pendingMovies (-) SetToBag({req})

\* the continuation of fetchMovies after `await fetch` / `await res.json()`
ResolveMovies(req, data) ==
    /\ pendingMovies' = Overtake(req, data)
    /\ ev' = Event("moviesResolved", req, data)
    /\ loadingMovies' = LoadingMoviesAfter(loadingMovies, data)
    /\ IF data.Response = "throw"
       THEN /\ error' = Some(MoviesCatchError)
            /\ UNCHANGED <<movies, totalResults, page>>
       ELSE IF data.Response = "False"
       THEN /\ error' = Some(ErrorOr(data, MoviesFallback))
            /\ movies' = MoviesOnFalse(movies, req.append)
            /\ totalResults' = 0
            /\ UNCHANGED page
       ELSE /\ movies' = NextMovies(movies, req.append, SearchOrEmpty(data))
            /\ totalResults' = ParseInt(TotalOrZero(data))
            /\ page' = req.page
            /\ UNCHANGED error
    /\ UNCHANGED <<search, selectedMovie, loadingDetails, pendingDetails>>

\* ------------------------------------------------- fetchMovieDetails

\* the identifier of the card the user activates: the first one of the grid
ClickedIds == { movies[i].imdbID : i \in 1..Min(1, Len(movies)) }

\* history: `closed` marks the pending detail requests issued before the
\* modal was last closed with no fetchMovieDetails call since
SetClosed(reqs, c) == BagOfAll(LAMBDA r : [r EXCEPT !.closed = c], reqs)

NeverEmptyId(id) == FALSE
\* if (!id) return;
IsEmptyId(id) == id = <<>>

\* a card's onClick / onKeyDown: fetchMovieDetails(movie.imdbID)
FetchMovieDetails(id) ==
    /\ ev' = Event("fetchMovieDetails", [id |-> id, closed |-> FALSE], NoResp)
    /\ IF IsEmptyId(id)
       THEN UNCHANGED <<search, movies, selectedMovie, loadingMovies,
                        loadingDetails, error, page, totalResults,
                        pendingMovies, pendingDetails>>
       ELSE /\ InFlight < MaxInFlight
            /\ loadingDetails' = TRUE
            /\ error' = Null
            /\ pendingDetails' =
                   SetClosed(pendingDetails, FALSE)
                       (+) SetToBag({[id |-> id, closed |-> FALSE]})
            /\ UNCHANGED <<search, movies, selectedMovie, loadingMovies, page,
                           totalResults, pendingMovies>>

KeepSelection(prev) == prev
\* setSelectedMovie(null) of the Response === "False" branch
SelectedOnFalse(prev) == Null

\* the texts of setError in fetchMovieDetails
DetailsFallback == "Failed to load movie details."
DetailsCatchError == "Failed to fetch movie details."

ClearSelection(prev) == Null
\* the catch block leaves the selection alone (lines 88-90)
SelectedOnThrow(prev) == prev

DetailsClearedUnlessThrown(prev, data) ==
    IF data.Response = "throw" THEN prev ELSE FALSE
\* finally { setLoadingDetails(false) }
LoadingDetailsAfter(prev, data) == FALSE

\* the continuation of fetchMovieDetails after its awaits
ResolveDetails(req, data) ==
    /\ pendingDetails' = pendingDetails (-) SetToBag({req})
    /\ ev' = Event("detailsResolved", req, data)
    /\ loadingDetails' = LoadingDetailsAfter(loadingDetails, data)
    /\ IF data.Response = "throw"
       THEN /\ error' = Some(DetailsCatchError)
            /\ selectedMovie' = SelectedOnThrow(selectedMovie)
       ELSE IF data.Response = "False"
       THEN /\ error' = Some(ErrorOr(data, DetailsFallback))
            /\ selectedMovie' = SelectedOnFalse(selectedMovie)
       ELSE /\ selectedMovie' = Some(data)
            /\ UNCHANGED error
    /\ UNCHANGED <<search, movies, loadingMovies, page, totalResults,
                   pendingMovies>>

\* ------------------------------------------------------- closeDetails
CloseAndClearError(op) ==
    /\ selectedMovie' = Null
    /\ error' = Null
    /\ pendingDetails' = SetClosed(pendingDetails, TRUE)
    /\ ev' = Event(op, NoReq, NoResp)
    /\ UNCHANGED <<search, movies, loadingMovies, loadingDetails, page,
                   totalResults, pendingMovies>>

\* setSelectedMovie(null)
CloseDetails(op) ==
    /\ selectedMovie' = Null
    /\ pendingDetails' = SetClosed(pendingDetails, TRUE)
    /\ ev' = Event(op, NoReq, NoResp)
    /\ UNCHANGED <<search, movies, loadingMovies, loadingDetails, error, page,
                   totalResults, pendingMovies>>

\* the modal is rendered
ModalOpen == selectedMovie # Null

\* the grid: src={posterFor(movie.Poster)} of every card
Cards ==
    [i \in 1..Len(movies) |->
        [key |-> movies[i].imdbID, src |-> PosterFor(Some(movies[i].Poster))]]

\* the modal: src={posterFor(selectedMovie?.Poster)}
ModalPoster == PosterFor(IF ModalOpen THEN Val(selectedMovie).Poster ELSE Null)

\* the "Close details" button
CloseButton == ModalOpen /\ CloseDetails("closeButton")

\* a click on the overlay outside the content
OverlayClick == ModalOpen /\ CloseDetails("overlayClick")

\* onKey: if (e.key === "Escape") setSelectedMovie(null)
EscapeKey == CloseDetails("escape")

Next ==
    \/ \E q \in Queries : SetSearch(q)
    \/ FetchMovies
    \/ LoadMore
    \/ \E req \in BagToSet(pendingMovies) :
         \E data \in SearchResponses(req) \cup {Thrown} :
            ResolveMovies(req, data)
    \/ \E id \in ClickedIds : FetchMovieDetails(id)
    \/ \E req \in BagToSet(pendingDetails) :
         \E data \in DetailResponses(req) \cup {DetailThrown} :
            ResolveDetails(req, data)
    \/ CloseButton
    \/ OverlayClick
    \/ EscapeKey

Spec == Init /\ [][Next]_vars

\* ------------------------------------------------ sequential pagination
\* One query, answered page by page with ScenarioPageLen items of
\* ScenarioPageLen * ScenarioPages matches; the search is submitted once and
\* "Load more" is activated only while no search request is in flight.
\* The first card may be opened and closed at any time.
Batman == <<"b", "a", "t", "m", "a", "n">>
ScenarioTotal == ScenarioPageLen * ScenarioPages

\* OmdbSearchResponse for page req.page of the scenario
ScenarioResponse(req) ==
    [Response |-> "True",
     Search |-> Some([i \in 1..(IF req.page <= ScenarioPages
                                 THEN ScenarioPageLen ELSE 0) |->
                        Movie(req.q, (req.page - 1) * ScenarioPageLen + i)]),
     totalResults |-> Some(ToDigits(ScenarioTotal)),
     Error |-> Null]

ScenarioNext ==
    \/ search = <<>> /\ SetSearch(Batman)
    \/ movies = <<>> /\ pendingMovies = EmptyBag /\ FetchMovies
    \/ pendingMovies = EmptyBag /\ LoadMore
    \/ \E req \in BagToSet(pendingMovies) :
         ResolveMovies(req, ScenarioResponse(req))
    \/ \E id \in ClickedIds : FetchMovieDetails(id)
    \/ \E req \in BagToSet(pendingDetails) :
         \E data \in DetailResponses(req) \cup {DetailThrown} :
            ResolveDetails(req, data)
    \/ CloseButton
    \/ OverlayClick
    \/ EscapeKey

ScenarioSpec == Init /\ [][ScenarioNext]_vars

\* ============================================================== claims
\* what a step leaves alone when it is a no-op: the React state and the
\* requests in flight
controllerVars == <<search, movies, selectedMovie, loadingMovies,
                    loadingDetails, error, page, totalResults,
                    pendingMovies, pendingDetails>>

\* empty or whitespace-only, said without trim
AllSpaces(s) == \A i \in 1..Len(s) : s[i] = " "

NoDuplicates(s) == \A i, j \in 1..Len(s) : i # j => s[i] # s[j]

MoviesOk == ev.op = "moviesResolved" /\ ev.resp.Response = "True"

\* C1: a successful response to a search issued with page 1 and append =
\* false leaves exactly the returned items, in the returned order, as the
\* result collection, the response's count as totalResults and page = 1.
C1_FreshSearchReplaces ==
    (MoviesOk /\ ev.req.page = 1 /\ ~ev.req.append) =>
        /\ movies = (IF ev.resp.Search = Null THEN <<>> ELSE Val(ev.resp.Search))
        /\ ToDigits(totalResults) =
               (IF ev.resp.totalResults = Null THEN <<"0">>
                ELSE Val(ev.resp.totalResults))
        /\ page = 1

\* a fresh search for "a" has answered with its first page while a detail
\* record is shown
C1_Witness ==
    /\ MoviesOk /\ ev.req.page = 1 /\ ~ev.req.append
    /\ ev.req.q = <<"a">>
    /\ Len(movies) = PageSize
    /\ totalResults = 2 * PageSize - 1
    /\ selectedMovie # Null

\* C2: after a search request resolves with Response = "False", fresh or
\* appended, the result collection is empty, totalResults is 0 and error
\* is not null.
C2_FailedSearchResets ==
    (ev.op = "moviesResolved" /\ ev.resp.Response = "False") =>
        movies = <<>> /\ totalResults = 0 /\ error # Null

\* a loadMore request has failed without an Error text
C2_Witness ==
    /\ ev.op = "moviesResolved" /\ ev.resp.Response = "False"
    /\ ev.req.append
    /\ ev.resp.Error = Null
    /\ error = Some("No results")

\* C3: fetchMovies, called directly or through loadMore, while the query
\* is empty or whitespace-only issues no request and changes no state.
C3_BlankSearchNoOp ==
    [][ (ev'.op \in {"fetchMovies", "loadMore"} /\ AllSpaces(search)) =>
            UNCHANGED controllerVars ]_vars

\* loadMore was invoked with a whitespace-only query while more results
\* were on offer
C3_Witness ==
    ev.op = "loadMore" /\ search = <<" ">> /\ LoadMoreOffered

\* C4: loadMore invoked while movies.length >= totalResults issues no
\* request and changes no state.
C4_LoadMoreStops ==
    [][ (ev'.op = "loadMore" /\ Len(movies) >= totalResults) =>
            UNCHANGED controllerVars ]_vars

\* loadMore was invoked for a non-blank query with every result loaded
C4_Witness ==
    /\ ev.op = "loadMore"
    /\ ~AllSpaces(search)
    /\ movies # <<>>
    /\ Len(movies) = totalResults
    /\ InFlight = 0

\* C5: a successful appended page keeps every item loaded before it in
\* place and brings no item the collection already holds, in every
\* interleaving.
C5_AppendNoDuplicates ==
    [][ (ev'.op = "moviesResolved" /\ ev'.resp.Response = "True" /\ ev'.req.append) =>
            /\ Len(movies') >= Len(movies)
            /\ SubSeq(movies', 1, Len(movies)) = movies
            /\ (NoDuplicates(movies) => NoDuplicates(movies')) ]_vars

\* C6: once no search is pending, the result collection holds the items of
\* the search issued last, although an earlier search for another query
\* resolved (successfully) after it.
C6_LastIssuedWins ==
    (/\ MoviesOk /\ ~ev.req.append
     /\ pendingMovies = EmptyBag
     /\ ev.req.overtaken # Null
     /\ Val(ev.req.overtaken).q # ev.req.q
     /\ Val(ev.req.overtaken).n > 0) =>
        /\ Len(movies) = Val(ev.req.overtaken).n
        /\ \A k \in 1..Len(movies) : movies[k].query = Val(ev.req.overtaken).q

\* C7: a detail request that was in flight when the modal was closed, with
\* no fetchMovieDetails call since, leaves the selection null when it
\* resolves successfully.
C7_ClosedStaysClosed ==
    (ev.op = "detailsResolved" /\ ev.resp.Response = "True" /\ ev.req.closed) =>
        selectedMovie = Null

\* C8: every step that takes the selection from null to a detail record
\* starts in a state where loadingDetails is true.
C8_ShownOnlyFromLoading ==
    [][ (selectedMovie = Null /\ selectedMovie' # Null) => loadingDetails ]_vars

\* C9: after a detail request resolves with Response = "False", the
\* selection is null and error is not null.
C9_FailedDetailClears ==
    (ev.op = "detailsResolved" /\ ev.resp.Response = "False") =>
        selectedMovie = Null /\ error # Null

\* a detail request has failed with the provider's message
C9_Witness ==
    /\ ev.op = "detailsResolved" /\ ev.resp.Response = "False"
    /\ error = Some("Movie not found!")
    /\ selectedMovie = Null

CloseOps == {"closeButton", "overlayClick", "escape"}

\* C10: the close button, a click on the overlay and the Escape key each
\* leave the selection null and every other field as it was; closing again
\* changes nothing.
C10_CloseDetails ==
    [][ (ev'.op \in CloseOps) =>
            /\ selectedMovie' = Null
            /\ UNCHANGED <<search, movies, loadingMovies, loadingDetails,
                           error, page, totalResults>>
            /\ BagCardinality(pendingMovies') = BagCardinality(pendingMovies)
            /\ BagCardinality(pendingDetails') = BagCardinality(pendingDetails)
            /\ (ev.op \in CloseOps => UNCHANGED progVars) ]_vars

\* the overlay was clicked, closing the modal, while another detail request
\* was loading
C10_Witness ==
    /\ ev.op = "overlayClick"
    /\ selectedMovie = Null
    /\ loadingDetails
    /\ movies # <<>>
\* C11: every completion of a search request, whatever its outcome, leaves
\* loadingMovies false, a pending search request can always complete, and
\* loadingMovies is false whenever no search request is in flight.
C11_LoadingMoviesCleared ==
    /\ ev.op = "moviesResolved" => ~loadingMovies
    /\ pendingMovies = EmptyBag => ~loadingMovies
    /\ \A req \in BagToSet(pendingMovies) :
          \A data \in SearchResponses(req) \cup {Thrown} :
             ENABLED ResolveMovies(req, data)

\* the only search request in flight has ended by throwing
C11_Witness ==
    /\ ev.op = "moviesResolved" /\ ev.resp.Response = "throw"
    /\ pendingMovies = EmptyBag
    /\ ~loadingMovies

\* C17: every completion of a detail request, whatever its outcome, leaves
\* loadingDetails false, a pending detail request can always complete, and
\* loadingDetails is false whenever no detail request is in flight.
C17_LoadingDetailsCleared ==
    /\ ev.op = "detailsResolved" => ~loadingDetails
    /\ pendingDetails = EmptyBag => ~loadingDetails
    /\ \A req \in BagToSet(pendingDetails) :
          \A data \in DetailResponses(req) \cup {DetailThrown} :
             ENABLED ResolveDetails(req, data)

\* the only detail request in flight has ended by throwing
C17_Witness ==
    /\ ev.op = "detailsResolved" /\ ev.resp.Response = "throw"
    /\ pendingDetails = EmptyBag
    /\ ~loadingDetails

\* C20: loadingMovies is true whenever a search request is in flight and
\* loadingDetails is true whenever a detail request is in flight.
C20_LoadingWhileInFlight ==
    /\ pendingMovies # EmptyBag => loadingMovies
    /\ pendingDetails # EmptyBag => loadingDetails
\* the result of poster resolution the claim states
ExpectedPoster(poster) ==
    IF poster \in {Null, Some(""), Some("N/A")} THEN Placeholder ELSE Val(poster)

\* C14: poster resolution gives the placeholder for undefined, "" and
\* "N/A", and its input for every other string ("n/a" included), on every
\* card and in the modal.
C14_PosterResolution ==
    /\ \A i \in 1..Len(movies) :
          Cards[i].src = ExpectedPoster(Some(movies[i].Poster))
    /\ ModalOpen => ModalPoster = ExpectedPoster(Val(selectedMovie).Poster)

\* cards with "N/A", "n/a" and "" are rendered ("n/a" as itself) and the
\* modal shows a record without Poster
C14_Witness ==
    /\ \A p \in {"N/A", "n/a", ""} : \E i \in 1..Len(movies) : movies[i].Poster = p
    /\ \E i \in 1..Len(movies) : Cards[i].src = "n/a"
    /\ ModalOpen /\ Val(selectedMovie).Poster = Null
    /\ ModalPoster = Placeholder

\* C15: fetchMovieDetails called with an empty identifier issues no request
\* and changes no state, the error included.
C15_EmptyIdNoOp ==
    [][ (ev'.op = "fetchMovieDetails" /\ ev'.req.id = <<>>) =>
            UNCHANGED controllerVars ]_vars

\* the card without identifier was activated while an error was displayed
C15_Witness ==
    /\ ev.op = "fetchMovieDetails" /\ ev.req.id = <<>>
    /\ movies # <<>>
    /\ error # Null
    /\ InFlight = 0
\* C19: all items of the result collection were returned for one and the
\* same query string.
C19_OneQuery ==
    \A i, j \in 1..Len(movies) : movies[i].query = movies[j].query

\* the error text a failure response carries, or the operation's fallback
OwnError(resp, fallback) ==
    IF resp.Error = Null \/ Val(resp.Error) = "" THEN fallback ELSE Val(resp.Error)

IssuedMovies == BagCardinality(pendingMovies') > BagCardinality(pendingMovies)
IssuedDetails == BagCardinality(pendingDetails') > BagCardinality(pendingDetails)

\* C13: a step that issues a request leaves error null; a completion with a
\* failure response or a throw leaves its own error text, a successful one
\* leaves error as it was; nothing else changes error.  So after a
\* successful completion error is null unless another operation completed
\* since the request was issued.
C13_OneError ==
    [][ /\ (IssuedMovies \/ IssuedDetails) => error' = Null
        /\ (ev'.op = "moviesResolved" /\ ev'.resp.Response = "False") =>
               error' = Some(OwnError(ev'.resp, "No results"))
        /\ (ev'.op = "moviesResolved" /\ ev'.resp.Response = "throw") =>
               error' = Some("Failed to fetch movies. Check your network or API key.")
        /\ (ev'.op = "detailsResolved" /\ ev'.resp.Response = "False") =>
               error' = Some(OwnError(ev'.resp, "Failed to load movie details."))
        /\ (ev'.op = "detailsResolved" /\ ev'.resp.Response = "throw") =>
               error' = Some("Failed to fetch movie details.")
        /\ (ev'.op \in {"moviesResolved", "detailsResolved"}
              /\ ev'.resp.Response = "True") => error' = error
        /\ (error' # error) =>
               \/ IssuedMovies \/ IssuedDetails
               \/ /\ ev'.op \in {"moviesResolved", "detailsResolved"}
                  /\ ev'.resp.Response \in {"False", "throw"} ]_vars

\* a search has failed with the provider's text while a detail record is
\* shown and a detail request is in flight: the error is the search's own
C13_Witness ==
    /\ ev.op = "moviesResolved" /\ ev.resp.Response = "False"
    /\ error = Some("Movie not found!")
    /\ ModalOpen
    /\ pendingDetails # EmptyBag

\* C16: a request that ends by throwing completes with its loading flag
\* cleared and error set to the operation's fixed generic text, and no
\* failure response ever produces that text.
C16_TransportFailure ==
    /\ (ev.op = "moviesResolved" /\ ev.resp.Response = "throw") =>
           error = Some(MoviesCatchError) /\ ~loadingMovies
    /\ (ev.op = "detailsResolved" /\ ev.resp.Response = "throw") =>
           error = Some(DetailsCatchError) /\ ~loadingDetails
    /\ (ev.op \in {"moviesResolved", "detailsResolved"}
          /\ ev.resp.Response = "False") =>
           error \notin {Some(MoviesCatchError), Some(DetailsCatchError)}
    /\ MoviesCatchError \notin {MoviesFallback, DetailsFallback}
    /\ DetailsCatchError \notin {MoviesFallback, DetailsFallback}

\* a loadMore request has ended by throwing
C16_Witness ==
    /\ ev.op = "moviesResolved" /\ ev.resp.Response = "throw"
    /\ ev.req.append
    /\ error = Some(MoviesCatchError)
    /\ movies # <<>>

\* C18: a search request that ends by throwing changes only error and
\* loadingMovies, a detail request that ends by throwing changes only error
\* and loadingDetails (a record shown before stays selected), and a detail
\* request that ends with a failure response leaves no record selected.
C18_ThrowKeepsState ==
    [][ /\ (ev'.op = "moviesResolved" /\ ev'.resp.Response = "throw") =>
               UNCHANGED <<search, movies, totalResults, page, selectedMovie,
                           loadingDetails>>
        /\ (ev'.op = "detailsResolved" /\ ev'.resp.Response = "throw") =>
               UNCHANGED <<search, movies, totalResults, page, selectedMovie,
                           loadingMovies>>
        /\ (ev'.op = "detailsResolved" /\ ev'.resp.Response = "False") =>
               selectedMovie' = Null ]_vars

\* a detail request has ended by throwing while a detail record was shown
C18_Witness ==
    /\ ev.op = "detailsResolved" /\ ev.resp.Response = "throw"
    /\ ModalOpen
    /\ error = Some(DetailsCatchError)
    /\ movies # <<>>

\* C12: in the sequential pagination scenario the collection is always the
\* first n matches in page order, n a multiple of the page length up to the
\* total; "Load more" is offered exactly while 0 < n < total; every
\* activation of loadMore with 0 < n < total requests exactly the next page,
\* and the activation that follows the last page (the ScenarioPages-th
\* one) finds all ScenarioTotal items held, the control not offered, and
\* issues no request.
C12_SequentialPagination ==
    LET n == Len(movies) IN
    /\ movies = [k \in 1..n |-> Movie(Batman, k)]
    /\ n \in { ScenarioPageLen * p : p \in 0..ScenarioPages }
    /\ n > 0 => n = ScenarioPageLen * page /\ totalResults = ScenarioTotal
    /\ LoadMoreOffered <=> (0 < n /\ n < ScenarioTotal)
    /\ \A req \in BagToSet(pendingMovies) :
          /\ req.page <= ScenarioPages
          /\ req.page = (IF req.append THEN page + 1 ELSE 1)
    /\ (ev.op = "loadMore" /\ 0 < n /\ n < ScenarioTotal) =>
          \E req \in BagToSet(pendingMovies) : req.append /\ req.page = page + 1
    /\ (ev.op = "loadMore" /\ ev.req.page = ScenarioPages + 1) =>
          /\ n = ScenarioTotal
          /\ ~LoadMoreOffered
          /\ pendingMovies = EmptyBag

\* loadMore has been activated after the last page arrived: all items are
\* held, the control is not offered and nothing was requested
C12_Witness ==
    /\ ev.op = "loadMore" /\ ev.req.page = ScenarioPages + 1
    /\ Len(movies) = ScenarioTotal
    /\ page = ScenarioPages
    /\ ~LoadMoreOffered
    /\ pendingMovies = EmptyBag
====
